---- MODULE Spec2Model ----
(***************************************************************************)
(* Model of src/parser/utils.ts (ExcaliReact): the row segmentation of a   *)
(* children sequence (areInSameRow, splitIntoRows), the bounding boxes     *)
(* (computeGroupNodeBoundingBox, computeFrameNodeBoundingBox,              *)
(* computeRowBoundingBox), computeFramePadding and formatCode.             *)
(*                                                                         *)
(* The functions are pure, so each is an operator computed as the code     *)
(* computes it, and each specification builds the inputs step by step and  *)
(* applies the functions to them, recording the call in `out`.             *)
(***************************************************************************)
EXTENDS Integers, Sequences, FiniteSets, TLC

VARIABLES
  gap,      \* the value of ROW_THRESHOLD_GAP (imported, utils.ts line 7)
  nodes,    \* the caller-owned children sequence / row / flat element list
  frame,    \* the frame element handed to the frame functions
  out,      \* the last call: [op, arg, res]
  fmt       \* formatCode: [pc, code, formatted, result]

vars == <<gap, nodes, frame, out, fmt>>

----------------------------------------------------------------------------
(* Bounds of the model *)

\* total number of nodes (elements and groups, at any depth) of the input
MaxNodes == 3
\* x and y of a node range over 0..MaxCoord
MaxCoord == 1
\* width and height of a node range over 0..MaxSize
MaxSize == 2
\* ROW_THRESHOLD_GAP ranges over 0..MaxGap
MaxGap == 1

----------------------------------------------------------------------------
(* Values *)

\* a value that may be null / undefined
Null == [isNull |-> TRUE, val |-> <<>>]
Some(v) == [isNull |-> FALSE, val |-> v]

NoOut == [op |-> "none", arg |-> <<>>, res |-> <<>>]
NoFrame == [type |-> "frame", id |-> "F0", x |-> 0, y |-> 0, width |-> 0, height |-> 0]
NoFmt == [pc |-> "idle", code |-> <<>>, formatter |-> "pending", formatted |-> <<>>,
          result |-> [settled |-> "fulfilled", value |-> <<>>]]

\* the values ROW_THRESHOLD_GAP may have (it is defined in ../constants)
ThresholdGaps == 0..MaxGap

Element(x, y, w, h) ==
  [type |-> "rectangle", x |-> x, y |-> y, width |-> w, height |-> h]

GroupNode(x, y, w, h, children) ==
  [type |-> "group", x |-> x, y |-> y, width |-> w, height |-> h,
   children |-> children]

\* { ...node, rows }
WithRows(node, rows) ==
  [f \in DOMAIN node \cup {"rows"} |-> IF f = "rows" THEN rows ELSE node[f]]

MathMin(a, b) == IF a <= b THEN a ELSE b
MathMax(a, b) == IF a >= b THEN a ELSE b

----------------------------------------------------------------------------
(* areInSameRow, utils.ts 280-290 *)

\* a slip: the second bottom edge is computed with the first node's height
areInSameRow_node1Height(node1, node2) ==
  LET node1Top == node1.y
      node1Bottom == node1.y + node1.height
      node2Top == node2.y
      node2Bottom == node2.y + node1.height
      overlap == MathMin(node1Bottom, node2Bottom) - MathMax(node1Top, node2Top)
  IN overlap > gap

areInSameRow(node1, node2) ==
  LET node1Top == node1.y
      node1Bottom == node1.y + node1.height
      node2Top == node2.y
      node2Bottom == node2.y + node2.height
      overlap == MathMin(node1Bottom, node2Bottom) - MathMax(node1Top, node2Top)
  IN overlap > gap

----------------------------------------------------------------------------
(* splitIntoRows, utils.ts 292-344 *)

RECURSIVE splitIntoRows(_)
RECURSIVE RowLoop(_, _, _, _, _)

\* a variant: a group child always opens a row of its own
GroupStep_alwaysNewRow(child, result, currentRow, previousElement) ==
  LET groupNodeRow == WithRows(child, splitIntoRows(Some(child.children)))
  IN <<Append(result, currentRow), <<groupNodeRow>>, groupNodeRow>>

\* a variant: a group child after the first is pushed without its rows
GroupStep_noRows(child, result, currentRow, previousElement) ==
  IF areInSameRow(child, previousElement)
    THEN <<result, Append(currentRow, child), child>>
    ELSE <<Append(result, currentRow), <<child>>, child>>

\* the body of one iteration for a group child (lines 317-333): the state
\* <<result, currentRow, previousElement>> after it
GroupStep(child, result, currentRow, previousElement) ==
  LET groupNodeRowElement == splitIntoRows(Some(child.children))
      groupNodeRow == WithRows(child, groupNodeRowElement)
  IN IF areInSameRow(groupNodeRow, previousElement)
       THEN <<result, Append(currentRow, groupNodeRow), groupNodeRow>>
       ELSE <<Append(result, currentRow), <<groupNodeRow>>, groupNodeRow>>

\* a variant: the child is compared with the first node of the current row
ElementStep_rowHead(child, result, currentRow, previousElement) ==
  IF areInSameRow(child, currentRow[1])
    THEN <<result, Append(currentRow, child), child>>
    ELSE <<Append(result, currentRow), <<child>>, child>>

\* the body of one iteration for an element child (lines 334-340)
ElementStep(child, result, currentRow, previousElement) ==
  IF areInSameRow(child, previousElement)
    THEN <<result, Append(currentRow, child), child>>
    ELSE <<Append(result, currentRow), <<child>>, child>>

\* a variant: the last row is not pushed
LoopExit_noFinalPush(result, currentRow) == result

\* what is returned once the loop has ended (lines 342-343)
LoopExit(result, currentRow) == Append(result, currentRow)

\* the for loop of lines 314-341 from index i (1-based here), then 342-343
RowLoop(ns, i, result, currentRow, previousElement) ==
  IF i > Len(ns)
    THEN LoopExit(result, currentRow)
    ELSE LET child == ns[i]
             s == IF child.type = "group"
                    THEN GroupStep(child, result, currentRow, previousElement)
                    ELSE ElementStep(child, result, currentRow, previousElement)
         IN RowLoop(ns, i + 1, s[1], s[2], s[3])

\* a variant: a first child that is a group opens the first row and the
\* loop goes on with its siblings
FirstGroup_continues(ns) ==
  LET firstChild == ns[1]
      groupNodeRow == WithRows(firstChild, splitIntoRows(Some(firstChild.children)))
  IN RowLoop(ns, 2, <<>>, <<groupNodeRow>>, groupNodeRow)

\* the early return for a first child that is a group (lines 299-309)
FirstGroup(ns) ==
  LET firstChild == ns[1]
      groupNodeRows == splitIntoRows(Some(firstChild.children))
  IN << <<WithRows(firstChild, groupNodeRows)>> >>

splitIntoRows(arg) ==
  IF arg.isNull \/ Len(arg.val) = 0
    THEN <<>>
    ELSE LET ns == arg.val
             firstChild == ns[1]
         IN IF firstChild.type = "group"
              THEN FirstGroup(ns)
              ELSE RowLoop(ns, 2, <<>>, <<firstChild>>, firstChild)

----------------------------------------------------------------------------
(* Building the input *)

RECURSIVE Size(_)
\* the number of nodes of a forest, at every depth
Size(ns) ==
  IF Len(ns) = 0 THEN 0
  ELSE 1 + (IF ns[1].type = "group" THEN Size(ns[1].children) ELSE 0)
         + Size(Tail(ns))

\* the geometry of the nodes of the row specification: x and width are not
\* read by the segmentation
RowGeo == {<<0, y, 1, h>> : y \in 0..MaxCoord, h \in 0..MaxSize}

\* the caller appends an element to the children sequence
AddElement(G) ==
  /\ Size(nodes) < MaxNodes
  /\ \E g \in G :
       nodes' = Append(nodes, Element(g[1], g[2], g[3], g[4]))
  /\ out' = NoOut
  /\ UNCHANGED <<gap, frame, fmt>>

\* the caller groups the last k nodes of the sequence
AddGroup(G) ==
  /\ Size(nodes) < MaxNodes
  /\ \E g \in G, k \in 0..Len(nodes) :
       LET n == Len(nodes) IN
       nodes' = Append(SubSeq(nodes, 1, n - k),
                       GroupNode(g[1], g[2], g[3], g[4], SubSeq(nodes, n - k + 1, n)))
  /\ out' = NoOut
  /\ UNCHANGED <<gap, frame, fmt>>

\* the caller starts over with an empty sequence
Clear ==
  /\ nodes # <<>>
  /\ nodes' = <<>>
  /\ out' = NoOut
  /\ UNCHANGED <<gap, frame, fmt>>

----------------------------------------------------------------------------
(* Calls of the row specification *)

CallSplitIntoRows ==
  /\ \E arg \in {Null, Some(nodes)} :
       out' = [op |-> "splitIntoRows", arg |-> arg, res |-> splitIntoRows(arg)]
  /\ UNCHANGED <<gap, nodes, frame, fmt>>

CallAreInSameRow ==
  /\ \E i \in 1..Len(nodes), j \in 1..Len(nodes) :
       out' = [op |-> "areInSameRow", arg |-> <<nodes[i], nodes[j]>>,
               res |-> areInSameRow(nodes[i], nodes[j])]
  /\ UNCHANGED <<gap, nodes, frame, fmt>>

InitRows ==
  /\ gap \in ThresholdGaps
  /\ nodes = <<>>
  /\ frame = NoFrame
  /\ out = NoOut
  /\ fmt = NoFmt

NextRows ==
  \/ AddElement(RowGeo)
  \/ AddGroup(RowGeo)
  \/ Clear
  \/ CallSplitIntoRows
  \/ CallAreInSameRow

SpecRows == InitRows /\ [][NextRows]_vars

----------------------------------------------------------------------------
(* Numbers that may be infinite: Infinity, -Infinity or a finite integer *)

Infinity == [inf |-> 1, val |-> 0]
NegInfinity == [inf |-> -1, val |-> 0]
NaN == [inf |-> 2, val |-> 0]
Num(n) == [inf |-> 0, val |-> n]

\* a <= b (never asked of NaN)
NumLeq(a, b) ==
  \/ a.inf < b.inf
  \/ a.inf = b.inf /\ (a.inf # 0 \/ a.val <= b.val)

NumMin(a, b) == IF NumLeq(a, b) THEN a ELSE b
NumMax(a, b) == IF NumLeq(a, b) THEN b ELSE a

\* a - b
NumMinus(a, b) ==
  IF a.inf = 0 /\ b.inf = 0 THEN Num(a.val - b.val)
  ELSE IF b.inf = 0 THEN a
  ELSE IF a.inf = 0 THEN [inf |-> 0 - b.inf, val |-> 0]
  ELSE IF a.inf = b.inf THEN NaN
  ELSE a

\* roundOffToDecimals with decimals = 2 (utils.ts 394-396), on an integer or
\* an infinity: Math.round(value * 10 ** 2) / 10 ** 2
roundOffToDecimals(value) ==
  IF value.inf # 0 THEN value
  ELSE LET scaled == value.val * (10 ^ 2)
           rounded == scaled
       IN Num(rounded \div (10 ^ 2))

BoundingBox(minX, minY, maxX, maxY) ==
  [minX |-> minX, minY |-> minY, maxX |-> maxX, maxY |-> maxY]

\* the box every accumulation starts from (lines 192-195, 222-225, 241-244)
SentinelBox == BoundingBox(Infinity, Infinity, NegInfinity, NegInfinity)

\* { minX: 0, minY: 0, maxX: 0, maxY: 0 } (line 239)
ZeroBox == BoundingBox(Num(0), Num(0), Num(0), Num(0))

----------------------------------------------------------------------------
(* computeGroupNodeBoundingBox, utils.ts 191-213 *)

RECURSIVE computeGroupNodeBoundingBox(_)
RECURSIVE GroupBoxLoop(_, _, _)

\* the else branch of the loop (lines 205-208)
ElementChildStep(box, child) ==
  BoundingBox(NumMin(box.minX, Num(child.x)),
              NumMin(box.minY, Num(child.y)),
              NumMax(box.maxX, Num(child.x + child.width)),
              NumMax(box.maxY, Num(child.y + child.height)))

\* a variant: a group child contributes its stored geometry
GroupChildStep_storedGeometry(box, child) == ElementChildStep(box, child)

\* the branch of the loop for a group child (lines 199-203)
GroupChildStep(box, child) ==
  LET boundingBox == computeGroupNodeBoundingBox(child)
  IN BoundingBox(NumMin(box.minX, boundingBox.minX),
                 NumMin(box.minY, boundingBox.minY),
                 NumMax(box.maxX, boundingBox.maxX),
                 NumMax(box.maxY, boundingBox.maxY))

\* the for loop of lines 197-210 from index i
GroupBoxLoop(children, i, box) ==
  IF i > Len(children) THEN box
  ELSE GroupBoxLoop(children, i + 1,
         IF children[i].type = "group"
           THEN GroupChildStep(box, children[i])
           ELSE ElementChildStep(box, children[i]))

computeGroupNodeBoundingBox(node) ==
  GroupBoxLoop(node.children, 1, SentinelBox)

----------------------------------------------------------------------------
(* computeFrameNodeBoundingBox, utils.ts 215-235 *)

\* a variant: every element is kept, whatever its frameId
FrameElements_all(fr, elements) == elements

\* elements.filter((element) => element.frameId === frame.id), lines 219-221
FrameElements(fr, elements) ==
  SelectSeq(elements, LAMBDA element : element.frameId = fr.id)

RECURSIVE FrameBoxLoop(_, _, _)
\* the for loop of lines 227-232
FrameBoxLoop(frameElements, i, box) ==
  IF i > Len(frameElements) THEN box
  ELSE LET element == frameElements[i]
       IN FrameBoxLoop(frameElements, i + 1,
            BoundingBox(NumMin(box.minX, Num(element.x)),
                        NumMin(box.minY, Num(element.y)),
                        NumMax(box.maxX, Num(element.x + element.width)),
                        NumMax(box.maxY, Num(element.y + element.height))))

computeFrameNodeBoundingBox(fr, elements) ==
  FrameBoxLoop(FrameElements(fr, elements), 1, SentinelBox)

----------------------------------------------------------------------------
(* computeRowBoundingBox, utils.ts 237-253 *)

RECURSIVE RowBoxLoop(_, _, _)
\* the for loop of lines 246-251
RowBoxLoop(row, i, box) ==
  IF i > Len(row) THEN box
  ELSE LET element == row[i]
       IN RowBoxLoop(row, i + 1,
            BoundingBox(NumMin(box.minX, Num(element.x)),
                        NumMin(box.minY, Num(element.y)),
                        NumMax(box.maxX, Num(element.x + element.width)),
                        NumMax(box.maxY, Num(element.y + element.height))))

\* a variant: the guard also takes the row without nodes
computeRowBoundingBox_emptyIsZero(row) ==
  IF row.isNull \/ Len(row.val) = 0 THEN ZeroBox
  ELSE RowBoxLoop(row.val, 1, SentinelBox)

\* if (!row) is true of null only: an array, empty or not, is truthy
computeRowBoundingBox(row) ==
  IF row.isNull THEN ZeroBox
  ELSE RowBoxLoop(row.val, 1, SentinelBox)

----------------------------------------------------------------------------
(* computeFramePadding, utils.ts 261-278 *)

computeFramePadding(fr, elements) ==
  LET boundingBox == computeFrameNodeBoundingBox(fr, elements)
  IN [left |-> roundOffToDecimals(NumMinus(boundingBox.minX, Num(fr.x))),
      top |-> roundOffToDecimals(NumMinus(boundingBox.minY, Num(fr.y))),
      right |-> roundOffToDecimals(
                  NumMinus(Num(fr.x + fr.width), boundingBox.maxX)),
      bottom |-> roundOffToDecimals(
                   NumMinus(Num(fr.y + fr.height), boundingBox.maxY))]

----------------------------------------------------------------------------
(* The bounding box specification: a forest of nodes, as the children of a
   group node or as a row *)

\* the geometry of the elements: every x, y in range, a width and a height
\* of 0 or MaxSize
BoxGeo == {<<x, y, w, h>> : x \in 0..MaxCoord, y \in 0..MaxCoord,
                            w \in {0, MaxSize}, h \in {0, MaxSize}}

\* the stored geometry of a group: arbitrary, it may be stale
StoredGeo == {<<0, 0, 0, 0>>, <<MaxCoord, MaxCoord, MaxSize, MaxSize>>}

CallComputeGroupNodeBoundingBox ==
  /\ \E g \in StoredGeo :
       LET node == GroupNode(g[1], g[2], g[3], g[4], nodes) IN
       out' = [op |-> "computeGroupNodeBoundingBox", arg |-> node,
               res |-> computeGroupNodeBoundingBox(node)]
  /\ UNCHANGED <<gap, nodes, frame, fmt>>

CallComputeRowBoundingBox ==
  /\ \E row \in {Null, Some(nodes)} :
       out' = [op |-> "computeRowBoundingBox", arg |-> row,
               res |-> computeRowBoundingBox(row)]
  /\ UNCHANGED <<gap, nodes, frame, fmt>>

InitBox ==
  /\ gap = 0
  /\ nodes = <<>>
  /\ frame = NoFrame
  /\ out = NoOut
  /\ fmt = NoFmt

NextBox ==
  \/ AddElement(BoxGeo)
  \/ AddGroup(StoredGeo)
  \/ Clear
  \/ CallComputeGroupNodeBoundingBox
  \/ CallComputeRowBoundingBox

SpecBox == InitBox /\ [][NextBox]_vars

----------------------------------------------------------------------------
(* The frame specification: a frame and a flat list of elements that name
   their frame by id *)

\* the number of elements of the flat list
MaxElements == 2

FrameIds == {"F1", "F2"}
\* the frameId of an element: the id of a frame, or null
ElementFrameIds == FrameIds \cup {"null"}

FrameElement(x, y, w, h, frameId) ==
  [type |-> "rectangle", x |-> x, y |-> y, width |-> w, height |-> h,
   frameId |-> frameId]

\* the frames: at every position, large enough to hold every element, or
\* without extent
Frames ==
  {[type |-> "frame", id |-> "F1", x |-> x, y |-> y, width |-> w, height |-> w] :
     x \in 0..MaxCoord, y \in 0..MaxCoord, w \in {0, MaxCoord + MaxSize}}

AddFrameElement ==
  /\ Len(nodes) < MaxElements
  /\ \E g \in BoxGeo, f \in ElementFrameIds :
       nodes' = Append(nodes, FrameElement(g[1], g[2], g[3], g[4], f))
  /\ out' = NoOut
  /\ UNCHANGED <<gap, frame, fmt>>

CallComputeFrameNodeBoundingBox ==
  /\ out' = [op |-> "computeFrameNodeBoundingBox", arg |-> <<frame, nodes>>,
             res |-> computeFrameNodeBoundingBox(frame, nodes)]
  /\ UNCHANGED <<gap, nodes, frame, fmt>>

CallComputeFramePadding ==
  /\ out' = [op |-> "computeFramePadding", arg |-> <<frame, nodes>>,
             res |-> computeFramePadding(frame, nodes)]
  /\ UNCHANGED <<gap, nodes, frame, fmt>>

InitFrame ==
  /\ gap = 0
  /\ nodes = <<>>
  /\ frame \in Frames
  /\ out = NoOut
  /\ fmt = NoFmt

NextFrame ==
  \/ AddFrameElement
  \/ Clear
  \/ CallComputeFrameNodeBoundingBox
  \/ CallComputeFramePadding
  \/ CallComputeGroupNodeBoundingBox
  \/ CallComputeRowBoundingBox

SpecFrame == InitFrame /\ [][NextFrame]_vars

----------------------------------------------------------------------------
(* formatCode, utils.ts 370-386 *)

\* the length of a text
MaxTextLen == 3

Chars == {"a", ";"}
\* the texts handed to formatCode and returned by the formatter
Texts == UNION {[1..n -> Chars] : n \in 0..MaxTextLen}

\* the ways prettier.format can fail inside the try block
Failures == {"throws", "rejects"}

\* how an async function settles
Fulfilled(value) == [settled |-> "fulfilled", value |-> value]
Rejected(error) == [settled |-> "rejected", value |-> error]

\* return formattedCode (line 381)
OnFormatted(code, formattedCode) == Fulfilled(formattedCode)

\* a variant: the catch block lets the error go on to the caller
OnCatch_rethrows(code, error) == Rejected(error)

\* the catch block: console.error, return code (lines 382-385)
OnCatch(code, error) == Fulfilled(code)

\* formatCode(code) is called and awaits prettier.format (lines 371-380)
FormatCodeCall ==
  /\ fmt.pc = "idle"
  /\ \E code \in Texts :
       fmt' = [pc |-> "awaiting", code |-> code, formatter |-> "pending",
               formatted |-> <<>>, result |-> Fulfilled(<<>>)]
  /\ UNCHANGED <<gap, nodes, frame, out>>

\* the formatter succeeds with some text
PrettierSucceeds ==
  /\ fmt.pc = "awaiting"
  /\ \E formattedCode \in Texts :
       fmt' = [fmt EXCEPT !.pc = "done", !.formatter = "succeeded",
                          !.formatted = formattedCode,
                          !.result = OnFormatted(fmt.code, formattedCode)]
  /\ UNCHANGED <<gap, nodes, frame, out>>

\* the formatter throws, or the promise it returned rejects
PrettierFails ==
  /\ fmt.pc = "awaiting"
  /\ \E error \in Failures :
       fmt' = [fmt EXCEPT !.pc = "done", !.formatter = error,
                          !.result = OnCatch(fmt.code, error)]
  /\ UNCHANGED <<gap, nodes, frame, out>>

\* the caller has the result and may call again
FormatCodeDone ==
  /\ fmt.pc = "done"
  /\ fmt' = NoFmt
  /\ UNCHANGED <<gap, nodes, frame, out>>

InitFormat ==
  /\ gap = 0
  /\ nodes = <<>>
  /\ frame = NoFrame
  /\ out = NoOut
  /\ fmt = NoFmt

NextFormat ==
  \/ FormatCodeCall
  \/ PrettierSucceeds
  \/ PrettierFails
  \/ FormatCodeDone

SpecFormat == InitFormat /\ [][NextFormat]_vars

----------------------------------------------------------------------------
(* Statements about the row segmentation *)

RECURSIVE Flatten(_)
\* the rows of a result, concatenated in order
Flatten(rows) ==
  IF Len(rows) = 0 THEN <<>> ELSE rows[1] \o Flatten(Tail(rows))

\* a node without the rows field splitIntoRows adds
Strip(n) ==
  IF "rows" \in DOMAIN n THEN [f \in DOMAIN n \ {"rows"} |-> n[f]] ELSE n

StripAll(ns) == [i \in 1..Len(ns) |-> Strip(ns[i])]

RECURSIVE PrefixLen(_, _)
\* the number of nodes of the first r rows
PrefixLen(rows, r) ==
  IF r = 0 THEN 0 ELSE PrefixLen(rows, r - 1) + Len(rows[r])

\* the row of the k-th node of the concatenated rows
RowOf(rows, k) ==
  CHOOSE r \in 1..Len(rows) : PrefixLen(rows, r - 1) < k /\ k <= PrefixLen(rows, r)

\* the vertical intervals of a and b overlap by more than ROW_THRESHOLD_GAP
OverlapsMoreThanGap(a, b) ==
  LET top == IF a.y >= b.y THEN a.y ELSE b.y
      bottom == IF a.y + a.height <= b.y + b.height
                  THEN a.y + a.height ELSE b.y + b.height
  IN bottom - top > gap

SplitCalled == out.op = "splitIntoRows" /\ ~out.arg.isNull
SplitInput == out.arg.val
\* a call on a non-empty sequence whose first node is a group
GroupFirstCall ==
  SplitCalled /\ Len(SplitInput) > 0 /\ SplitInput[1].type = "group"
\* a call on a non-empty sequence whose first node is not a group
ElementFirstCall ==
  SplitCalled /\ Len(SplitInput) > 0 /\ SplitInput[1].type # "group"

\* C1: when the first node of a non-empty children sequence is a group,
\* splitIntoRows returns exactly one row, holding exactly one node, the first
\* group with its rows added; no sibling that follows it is in the output.
C1_FirstGroupOnly ==
  GroupFirstCall =>
    /\ Len(out.res) = 1
    /\ Len(out.res[1]) = 1
    /\ "rows" \in DOMAIN out.res[1][1]
    /\ Strip(out.res[1][1]) = SplitInput[1]

C1_Witness ==
  /\ GroupFirstCall
  /\ Len(SplitInput) >= 3
  /\ SplitInput[2].type # "group"
  /\ OverlapsMoreThanGap(SplitInput[1], SplitInput[2])
  /\ Len(out.res) = 1

\* C2, as claimed: in the output of splitIntoRows every row that contains a
\* group node contains only that node.
C2_GroupRowsAreSingletons ==
  out.op = "splitIntoRows" =>
    \A r \in 1..Len(out.res) :
      (\E i \in 1..Len(out.res[r]) : out.res[r][i].type = "group")
        => Len(out.res[r]) = 1

\* C2, amended: a group that is the first child is the only node of the only
\* row; a group child at a later position k of a sequence whose first node is
\* not a group is alone in its row exactly when its stored vertical interval
\* overlaps neither node k-1 nor (when there is one) node k+1 by more than
\* ROW_THRESHOLD_GAP, and shares the row of such a sibling otherwise.
C2_GroupRowSingletonIffNoOverlap ==
  /\ GroupFirstCall => Len(out.res) = 1 /\ Len(out.res[1]) = 1
  /\ ElementFirstCall =>
       /\ Len(Flatten(out.res)) = Len(SplitInput)
       /\ \A k \in 2..Len(SplitInput) :
            SplitInput[k].type = "group" =>
              /\ Flatten(out.res)[k].type = "group"
              /\ (Len(out.res[RowOf(out.res, k)]) = 1) <=>
                   /\ ~OverlapsMoreThanGap(SplitInput[k], SplitInput[k - 1])
                   /\ k < Len(SplitInput) =>
                        ~OverlapsMoreThanGap(SplitInput[k + 1], SplitInput[k])

C2_Witness ==
  /\ ElementFirstCall
  /\ \E k \in 2..Len(SplitInput) :
       /\ SplitInput[k].type = "group"
       /\ OverlapsMoreThanGap(SplitInput[k], SplitInput[k - 1])
       /\ Len(out.res[RowOf(out.res, k)]) >= 2

ExampleNodes == <<Element(0, 0, 10, 10), Element(0, 5, 10, 10), Element(0, 40, 10, 10)>>

\* C3: when the first node is not a group, node k (k >= 1) is in the row of
\* node k-1 if and only if their vertical intervals overlap by strictly more
\* than ROW_THRESHOLD_GAP; only the immediately preceding node decides, so
\* the number of rows is 1 plus the number of adjacent pairs failing the
\* test; with threshold 0 the nodes (0,10),(5,10),(40,10) give [[n0,n1],[n2]].
C3_RowBreaksAtAdjacentPairs ==
  /\ ElementFirstCall =>
       /\ Len(Flatten(out.res)) = Len(SplitInput)
       /\ \A k \in 2..Len(SplitInput) :
            (RowOf(out.res, k) = RowOf(out.res, k - 1))
              <=> OverlapsMoreThanGap(SplitInput[k], SplitInput[k - 1])
       /\ Len(out.res) = 1 + Cardinality({k \in 2..Len(SplitInput) :
                   ~OverlapsMoreThanGap(SplitInput[k], SplitInput[k - 1])})
  /\ (SplitCalled /\ gap = 0) =>
       splitIntoRows(Some(ExampleNodes))
         = << <<ExampleNodes[1], ExampleNodes[2]>>, <<ExampleNodes[3]>> >>

\* a chain: each node overlaps its predecessor, the first and the last do not
C3_Witness ==
  /\ ElementFirstCall
  /\ Len(SplitInput) = 3
  /\ OverlapsMoreThanGap(SplitInput[2], SplitInput[1])
  /\ OverlapsMoreThanGap(SplitInput[3], SplitInput[2])
  /\ ~OverlapsMoreThanGap(SplitInput[3], SplitInput[1])
  /\ Len(out.res) = 1

\* C4: when the first node is not a group, the rows concatenated in order are
\* exactly the input nodes in input order (a group differing only by its rows
\* field) and no row is empty; the output is empty iff the input is empty or
\* absent.
C4_OrderPreservedNothingLost ==
  /\ ElementFirstCall =>
       /\ StripAll(Flatten(out.res)) = SplitInput
       /\ \A r \in 1..Len(out.res) : Len(out.res[r]) > 0
  /\ out.op = "splitIntoRows" =>
       ((out.res = <<>>) <=> (out.arg.isNull \/ Len(out.arg.val) = 0))

C4_Witness ==
  /\ ElementFirstCall
  /\ Len(SplitInput) = 3
  /\ Len(out.res) = 2
  /\ \E k \in 2..3 : SplitInput[k].type = "group"

\* C7: areInSameRow is symmetric.
C7_AreInSameRowSymmetric ==
  out.op = "areInSameRow" =>
    out.res = areInSameRow(out.arg[2], out.arg[1])

C7_Witness ==
  /\ out.op = "areInSameRow"
  /\ out.arg[1] # out.arg[2]
  /\ out.arg[1].height # out.arg[2].height
  /\ out.res = TRUE

RECURSIVE RowsAnnotated(_, _)
\* every node of the rows is the input node at its position, a group with
\* the rows of its own children added, and so on through those rows
RowsAnnotated(rows, input) ==
  LET flat == Flatten(rows) IN
  /\ Len(flat) <= Len(input)
  /\ \A i \in 1..Len(flat) :
       IF input[i].type = "group"
         THEN /\ DOMAIN flat[i] = DOMAIN input[i] \cup {"rows"}
              /\ \A f \in DOMAIN input[i] : flat[i][f] = input[i][f]
              /\ flat[i].rows = splitIntoRows(Some(input[i].children))
              /\ RowsAnnotated(flat[i].rows, input[i].children)
         ELSE flat[i] = input[i]

\* C10: every group node of the output, at any depth and position, carries a
\* rows field equal to splitIntoRows of its own children, its other fields
\* are those of the input group, and the call leaves the input unchanged.
C10_GroupsCarryRows ==
  SplitCalled =>
    /\ RowsAnnotated(out.res, SplitInput)
    /\ nodes = SplitInput

\* a group after the first node, whose rows hold a group in turn
C10_Witness ==
  /\ ElementFirstCall
  /\ Len(Flatten(out.res)) = 2
  /\ Flatten(out.res)[2].type = "group"
  /\ Len(Flatten(out.res)[2].rows) = 1
  /\ Flatten(out.res)[2].rows[1][1].type = "group"
  /\ Flatten(out.res)[2].rows[1][1].rows = <<>>

----------------------------------------------------------------------------
(* Statements about the bounding boxes *)

RECURSIVE Leaves(_)
\* the elements of a forest, at every depth
Leaves(ns) ==
  IF Len(ns) = 0 THEN {}
  ELSE (IF ns[1].type = "group" THEN Leaves(ns[1].children) ELSE {ns[1]})
         \cup Leaves(Tail(ns))

SetMin(S) == CHOOSE m \in S : \A n \in S : m <= n
SetMax(S) == CHOOSE m \in S : \A n \in S : m >= n

\* the union of the boxes (x, y)-(x+width, y+height) of a set of elements
UnionBox(S) ==
  IF S = {} THEN SentinelBox
  ELSE BoundingBox(Num(SetMin({e.x : e \in S})),
                   Num(SetMin({e.y : e \in S})),
                   Num(SetMax({e.x + e.width : e \in S})),
                   Num(SetMax({e.y + e.height : e \in S})))

RECURSIVE Restored(_)
\* the same forest with other stored geometry in every group
Restored(ns) ==
  [i \in 1..Len(ns) |->
     IF ns[i].type = "group"
       THEN GroupNode(ns[i].x + 7, ns[i].y + 5, ns[i].width + 3, ns[i].height + 1,
                      Restored(ns[i].children))
       ELSE ns[i]]

GroupBoxCalled == out.op = "computeGroupNodeBoundingBox"

\* C5, as claimed: for every group node with a non-empty children sequence
\* the box has minX <= maxX and minY <= maxY and is the union of the boxes
\* of its children, a group child contributing the box of its own children.
C5_NonEmptyChildrenProperBox ==
  (GroupBoxCalled /\ Len(out.arg.children) > 0) =>
    /\ NumLeq(out.res.minX, out.res.maxX)
    /\ NumLeq(out.res.minY, out.res.maxY)
    /\ out.res = UnionBox(Leaves(out.arg.children))

\* C5, amended: for every group node the box is the union of the boxes
\* (x, y)-(x+width, y+height) of the elements below it at any depth, whatever
\* geometry the groups store; it has minX <= maxX and minY <= maxY when there
\* is at least one such element, and is the sentinel box when there is none,
\* also when the children sequence is non-empty (it holds only groups without
\* elements).
C5_BoxIsUnionOfElements ==
  GroupBoxCalled =>
    /\ out.res = UnionBox(Leaves(out.arg.children))
    /\ out.res = computeGroupNodeBoundingBox(
                   GroupNode(9, 9, 9, 9, Restored(out.arg.children)))
    /\ Leaves(out.arg.children) # {} =>
         NumLeq(out.res.minX, out.res.maxX) /\ NumLeq(out.res.minY, out.res.maxY)
    /\ Leaves(out.arg.children) = {} => out.res = SentinelBox

\* an element beside a group whose stored geometry is not the box of its
\* children
C5_Witness ==
  /\ GroupBoxCalled
  /\ Len(out.arg.children) = 2
  /\ out.arg.children[1].type # "group"
  /\ out.arg.children[2].type = "group"
  /\ Len(out.arg.children[2].children) = 1
  /\ out.arg.children[2].children[1].type # "group"
  /\ out.arg.children[2].x # out.arg.children[2].children[1].x
  /\ out.arg.children[2].children[1].x < out.arg.children[1].x
  /\ out.res.minX = Num(out.arg.children[2].children[1].x)

\* the elements of the flat list that name the frame
Owned(fr, elements) ==
  {elements[i] : i \in {j \in 1..Len(elements) : elements[j].frameId = fr.id}}

\* C6, as claimed: computeGroupNodeBoundingBox on empty children and
\* computeFrameNodeBoundingBox without an element of the frame return the
\* sentinel box, and computeRowBoundingBox returns the zero box for a null
\* row and for a row without nodes.
C6_EmptyRowIsZeroBox ==
  /\ (GroupBoxCalled /\ Len(out.arg.children) = 0) => out.res = SentinelBox
  /\ (out.op = "computeFrameNodeBoundingBox" /\ Owned(out.arg[1], out.arg[2]) = {})
       => out.res = SentinelBox
  /\ (out.op = "computeRowBoundingBox" /\ (out.arg.isNull \/ Len(out.arg.val) = 0))
       => out.res = ZeroBox

\* C6, amended: computeGroupNodeBoundingBox on empty children and
\* computeFrameNodeBoundingBox without an element of the frame return the
\* sentinel box; computeRowBoundingBox returns the zero box for a null row
\* only, and the sentinel box for a row without nodes.
C6_NullRowIsZeroBox ==
  /\ (GroupBoxCalled /\ Len(out.arg.children) = 0) => out.res = SentinelBox
  /\ (out.op = "computeFrameNodeBoundingBox" /\ Owned(out.arg[1], out.arg[2]) = {})
       => out.res = SentinelBox
  /\ (out.op = "computeRowBoundingBox" /\ out.arg.isNull) => out.res = ZeroBox
  /\ (out.op = "computeRowBoundingBox" /\ ~out.arg.isNull /\ Len(out.arg.val) = 0)
       => out.res = SentinelBox /\ out.res # ZeroBox

C6_Witness ==
  /\ out.op = "computeRowBoundingBox"
  /\ ~out.arg.isNull
  /\ Len(out.arg.val) = 0
  /\ out.res = SentinelBox

ExampleFrame ==
  [type |-> "frame", id |-> "F1", x |-> 0, y |-> 0, width |-> 100, height |-> 100]
ExampleChild == FrameElement(10, 10, 30, 30, "F1")

\* C8: when at least one element names the frame, computeFramePadding gives
\* left = minX - frame.x, top = minY - frame.y, right = frame.x + frame.width
\* - maxX, bottom = frame.y + frame.height - maxY over exactly the elements
\* whose frameId is the frame's id; a frame (0,0,100,100) with one element
\* (10,10,30,30) gives {left: 10, top: 10, right: 60, bottom: 60}.
C8_FramePadding ==
  out.op = "computeFramePadding" =>
    /\ LET fr == out.arg[1]
           own == Owned(fr, out.arg[2])
       IN own # {} =>
            /\ out.res.left = Num(SetMin({e.x : e \in own}) - fr.x)
            /\ out.res.top = Num(SetMin({e.y : e \in own}) - fr.y)
            /\ out.res.right =
                 Num(fr.x + fr.width - SetMax({e.x + e.width : e \in own}))
            /\ out.res.bottom =
                 Num(fr.y + fr.height - SetMax({e.y + e.height : e \in own}))
    /\ computeFramePadding(ExampleFrame, <<ExampleChild>>)
         = [left |-> Num(10), top |-> Num(10), right |-> Num(60), bottom |-> Num(60)]

\* an element of the frame and an element of another frame that reaches
\* further left and further right
C8_Witness ==
  /\ out.op = "computeFramePadding"
  /\ Len(out.arg[2]) = 2
  /\ out.arg[2][1].frameId = out.arg[1].id
  /\ out.arg[2][2].frameId = "F2"
  /\ out.arg[2][2].x < out.arg[2][1].x
  /\ out.arg[2][2].x + out.arg[2][2].width > out.arg[2][1].x + out.arg[2][1].width
  /\ out.res.left = Num(out.arg[2][1].x - out.arg[1].x)

----------------------------------------------------------------------------
(* Statements about formatCode *)

\* C9: formatCode never ends in a propagated failure: it completes with a
\* text, the formatter's output when the formatter succeeds and the input
\* text when the formatter throws or rejects.
C9_FormatCodeNeverFails ==
  fmt.pc = "done" =>
    /\ fmt.result.settled = "fulfilled"
    /\ fmt.result.value \in Texts
    /\ fmt.formatter = "succeeded" => fmt.result.value = fmt.formatted
    /\ fmt.formatter \in Failures => fmt.result.value = fmt.code

C9_Witness ==
  /\ fmt.pc = "done"
  /\ fmt.formatter = "rejects"
  /\ Len(fmt.code) = 2
  /\ fmt.result = Fulfilled(fmt.code)

====
